---- MODULE Spec2Model ----
(***************************************************************************)
(* Model of ibm-watson-rs: the IAM token exchange (src/auth/mod.rs) and    *)
(* the per-operation error enumerations of the voices API                  *)
(* (src/text-to-speech/voices/errors.rs).                                  *)
(*                                                                         *)
(* Spec         concurrent calls of IamAuthenticator::new over a network   *)
(* SpecLife     one IamAuthenticator: construction (new or Default), then  *)
(*              accessor calls while time passes                           *)
(* SpecClassify the list-voices and get-voice status classifiers           *)
(***************************************************************************)
EXTENDS Integers, Sequences, FiniteSets, TLC

VARIABLES pc, api_key, requests, responses, served, sent, parsed, result,
          auth, now, last_read, cl_log

vars == <<pc, api_key, requests, responses, served, sent, parsed, result,
          auth, now, last_read, cl_log>>

authVars == <<pc, api_key, requests, responses, served, sent, parsed, result, auth>>

(* ------------------------------ bounds -------------------------------- *)
MaxCalls == 2
MaxTime == 3
MaxClassify == 2

Calls == 1..MaxCalls
LifeCalls == {1}
ApiKeys == {"key-A", "key&B=1"}

(* --------------------------- program constants ------------------------ *)
AUTH_URL == "https://iam.cloud.ibm.com/identity/token"
OK == 200
BAD_REQUEST == 400

(* Options are sequences of length at most one. *)
None == <<>>
Some(v) == <<v>>

(* ------------------------------- JSON --------------------------------- *)
(* A JSON value; "absent" stands for a key that the object does not have. *)
JStr(s) == [t |-> "str", s |-> s, n |-> 0]
JNum(n) == [t |-> "num", s |-> "", n |-> n]
JNull == [t |-> "null", s |-> "", n |-> 0]
JAbsent == [t |-> "absent", s |-> "", n |-> 0]

(* A response body: json = FALSE is a body that is not a JSON object.      *)
(* accessToken is a key the struct does not name (serde ignores it).       *)
MalformedBody ==
    [json |-> FALSE, access_token |-> JAbsent, refresh_token |-> JAbsent,
     delegated_refresh_token |-> JAbsent, token_type |-> JAbsent,
     expires_in |-> JAbsent, expiration |-> JAbsent, scope |-> JAbsent,
     accessToken |-> JAbsent]

JsonBodies ==
    [json : {TRUE},
     access_token : {JAbsent, JStr(""), JStr("AT"), JNum(7)},
     refresh_token : {JStr(""), JStr("RT")},
     delegated_refresh_token : {JAbsent, JNull, JStr("DRT")},
     token_type : {JStr("Bearer")},
     expires_in : {JNum(3600)},
     expiration : {JNum(2), JStr("soon")},
     scope : {JAbsent, JStr("ibm openid")},
     accessToken : {JAbsent, JStr("CAMEL")}]

FullBody ==
    [json |-> TRUE, access_token |-> JStr("AT"), refresh_token |-> JStr("RT"),
     delegated_refresh_token |-> JStr("DRT"), token_type |-> JStr("Bearer"),
     expires_in |-> JNum(3600), expiration |-> JNum(2), scope |-> JStr("ibm openid"),
     accessToken |-> JStr("CAMEL")]

MinimalBody ==
    [FullBody EXCEPT !.delegated_refresh_token = JAbsent, !.scope = JAbsent,
                     !.accessToken = JAbsent]

EmptyTokenBody == [MinimalBody EXCEPT !.access_token = JStr("")]

LifeBodies == JsonBodies \cup {MalformedBody}
WireBodies == {FullBody, MinimalBody, EmptyTokenBody, MalformedBody}

Statuses == {OK, BAD_REQUEST, 401, 500}
(* reqwest::Error's Display always prints a description of its kind. *)
TransportErrors == {"error sending request: dns error", "operation timed out"}

(* ---------------------------- TokenResponse --------------------------- *)
(* #[derive(Default)]: empty strings, zero integers, None options. *)
TokenResponseDefault ==
    [access_token |-> "", refresh_token |-> "", delegated_refresh_token |-> None,
     token_type |-> "", expires_in |-> 0, expiration |-> 0, scope |-> None]

(* serde: a String field needs a JSON string under its (renamed) key. *)
StringFieldOk(v) == v.t = "str"
(* serde: an i64 field needs a JSON number. *)
I64FieldOk(v) == v.t = "num"
(* serde: an Option<String> field accepts a missing key, null or a string. *)
OptionFieldOk(v) == v.t \in {"absent", "null", "str"}
OptionField(v) == IF v.t = "str" THEN Some(v.s) ELSE None

DeserializeSwapped(body) ==
    IF /\ body.json
       /\ StringFieldOk(body.access_token)
       /\ StringFieldOk(body.refresh_token)
       /\ OptionFieldOk(body.delegated_refresh_token)
       /\ StringFieldOk(body.token_type)
       /\ I64FieldOk(body.expires_in)
       /\ I64FieldOk(body.expiration)
       /\ OptionFieldOk(body.scope)
    THEN [ok |-> TRUE,
          value |-> [access_token |-> body.refresh_token.s,
                     refresh_token |-> body.access_token.s,
                     delegated_refresh_token |-> OptionField(body.delegated_refresh_token),
                     token_type |-> body.token_type.s,
                     expires_in |-> body.expires_in.n,
                     expiration |-> body.expiration.n,
                     scope |-> OptionField(body.scope)]]
    ELSE [ok |-> FALSE, value |-> TokenResponseDefault]

DeserializeDefaulting(body) ==
    IF /\ body.json
       /\ StringFieldOk(body.refresh_token)
       /\ OptionFieldOk(body.delegated_refresh_token)
       /\ StringFieldOk(body.token_type)
       /\ I64FieldOk(body.expires_in)
       /\ I64FieldOk(body.expiration)
       /\ OptionFieldOk(body.scope)
    THEN [ok |-> TRUE,
          value |-> [access_token |-> IF body.accessToken.t = "str"
                                      THEN body.accessToken.s ELSE "",
                     refresh_token |-> body.refresh_token.s,
                     delegated_refresh_token |-> OptionField(body.delegated_refresh_token),
                     token_type |-> body.token_type.s,
                     expires_in |-> body.expires_in.n,
                     expiration |-> body.expiration.n,
                     scope |-> OptionField(body.scope)]]
    ELSE [ok |-> FALSE, value |-> TokenResponseDefault]

(* resp.json::<TokenResponse>(): the derived Deserialize of TokenResponse. *)
Deserialize(body) ==
    IF /\ body.json
       /\ StringFieldOk(body.access_token)
       /\ StringFieldOk(body.refresh_token)
       /\ OptionFieldOk(body.delegated_refresh_token)
       /\ StringFieldOk(body.token_type)
       /\ I64FieldOk(body.expires_in)
       /\ I64FieldOk(body.expiration)
       /\ OptionFieldOk(body.scope)
    THEN [ok |-> TRUE,
          value |-> [access_token |-> body.access_token.s,
                     refresh_token |-> body.refresh_token.s,
                     delegated_refresh_token |-> OptionField(body.delegated_refresh_token),
                     token_type |-> body.token_type.s,
                     expires_in |-> body.expires_in.n,
                     expiration |-> body.expiration.n,
                     scope |-> OptionField(body.scope)]]
    ELSE [ok |-> FALSE, value |-> TokenResponseDefault]

(* The accessors of TokenResponse. *)
access_token(t) == t.access_token
refresh_token(t) == t.refresh_token
token_type(t) == t.token_type
expires_in(t) == t.expires_in
expiration(t) == t.expiration
scope(t) == t.scope
delegated_refresh_token(t) == t.delegated_refresh_token

(* ------------------------- results of new() --------------------------- *)
Pending == [tag |-> "Pending", err |-> "", desc |-> ""]
ResultOk == [tag |-> "Ok", err |-> "", desc |-> ""]
ConnectionError(d) == [tag |-> "Err", err |-> "ConnectionError", desc |-> d]
ParameterValidationFailed ==
    [tag |-> "Err", err |-> "ParameterValidationFailed", desc |-> ""]

NoResponse == [kind |-> "none", call |-> 0, status |-> 0, body |-> MalformedBody, desc |-> ""]

(* The request new() builds: POST, form content type, key interpolated verbatim. *)
BuildRequest(c, key) ==
    [call |-> c, method |-> "POST", url |-> AUTH_URL,
     content_type |-> "application/x-www-form-urlencoded",
     body |-> "grant_type=urn:ibm:params:oauth:grant-type:apikey&apikey=" \o key]

(* ------------------------------- Init --------------------------------- *)
Init ==
    /\ pc = [c \in Calls |-> "idle"]
    /\ api_key = [c \in Calls |-> ""]
    /\ requests = {}
    /\ responses = {}
    /\ served = [c \in Calls |-> NoResponse]
    /\ sent = [c \in Calls |-> 0]
    /\ parsed = [c \in Calls |-> 0]
    /\ result = [c \in Calls |-> Pending]
    /\ auth = [c \in Calls |-> None]
    /\ now = 0
    /\ last_read = [call |-> 0, accessor |-> "none", value |-> None]
    /\ cl_log = <<>>

(* ----------------------- IamAuthenticator::new ------------------------ *)
(* new() up to the first await: build the request and hand it to a client. *)
NewSend(c, key) ==
    /\ pc[c] = "idle"
    /\ api_key' = [api_key EXCEPT ![c] = key]
    /\ requests' = requests \cup {BuildRequest(c, key)}
    /\ sent' = [sent EXCEPT ![c] = @ + 1]
    /\ pc' = [pc EXCEPT ![c] = "awaiting"]
    /\ UNCHANGED <<responses, served, parsed, result, auth, now, last_read, cl_log>>

(* The identity endpoint answers the request of call c. *)
ServerRespond(c, status, body) ==
    /\ \E r \in requests :
          /\ r.call = c
          /\ requests' = requests \ {r}
    /\ LET m == [kind |-> "resp", call |-> c, status |-> status, body |-> body, desc |-> ""]
       IN /\ responses' = responses \cup {m}
          /\ served' = [served EXCEPT ![c] = m]
    /\ UNCHANGED <<pc, api_key, sent, parsed, result, auth, now, last_read, cl_log>>

(* The transport fails before a status is obtained. *)
TransportFail(c, d) ==
    /\ \E r \in requests :
          /\ r.call = c
          /\ requests' = requests \ {r}
    /\ LET m == [kind |-> "fail", call |-> c, status |-> 0, body |-> MalformedBody, desc |-> d]
       IN /\ responses' = responses \cup {m}
          /\ served' = [served EXCEPT ![c] = m]
    /\ UNCHANGED <<pc, api_key, sent, parsed, result, auth, now, last_read, cl_log>>

DeliverableAny(m, c) == m.call \in Calls

(* client.execute(req).await resolves with the outcome of this call's request. *)
Deliverable(m, c) == m.call = c

OnTransportErrorRetry(c, m) ==
    IF sent[c] < 2
    THEN /\ requests' = requests \cup {BuildRequest(c, api_key[c])}
         /\ sent' = [sent EXCEPT ![c] = @ + 1]
         /\ UNCHANGED <<pc, result, parsed, auth>>
    ELSE /\ result' = [result EXCEPT ![c] = ConnectionError(m.desc)]
         /\ pc' = [pc EXCEPT ![c] = "returned_err"]
         /\ UNCHANGED <<requests, sent, parsed, auth>>

OnTransportErrorBlank(c, m) ==
    /\ result' = [result EXCEPT ![c] = ConnectionError("")]
    /\ pc' = [pc EXCEPT ![c] = "returned_err"]
    /\ UNCHANGED <<requests, sent, parsed, auth>>

(* .map_err(|e| AuthenticationError::ConnectionError(e.to_string()))? *)
OnTransportError(c, m) ==
    /\ result' = [result EXCEPT ![c] = ConnectionError(m.desc)]
    /\ pc' = [pc EXCEPT ![c] = "returned_err"]
    /\ UNCHANGED <<requests, sent, parsed, auth>>

(* StatusCode::OK arm: resp.json().await.unwrap(), then Ok(Self { access_token }) *)
OnStatusOk(c, m) ==
    LET d == Deserialize(m.body)
    IN /\ parsed' = [parsed EXCEPT ![c] = @ + 1]
       /\ IF d.ok
          THEN /\ auth' = [auth EXCEPT ![c] = Some([access_token |-> d.value])]
               /\ result' = [result EXCEPT ![c] = ResultOk]
               /\ pc' = [pc EXCEPT ![c] = "returned_ok"]
          ELSE /\ pc' = [pc EXCEPT ![c] = "panicked"]
               /\ UNCHANGED <<auth, result>>
       /\ UNCHANGED <<requests, sent>>

OnBadRequestParsing(c, m) ==
    LET d == Deserialize(m.body)
    IN /\ parsed' = [parsed EXCEPT ![c] = @ + 1]
       /\ IF d.ok
          THEN /\ auth' = [auth EXCEPT ![c] = Some([access_token |-> d.value])]
               /\ result' = [result EXCEPT ![c] = ResultOk]
               /\ pc' = [pc EXCEPT ![c] = "returned_ok"]
          ELSE /\ result' = [result EXCEPT ![c] = ParameterValidationFailed]
               /\ pc' = [pc EXCEPT ![c] = "returned_err"]
               /\ UNCHANGED auth
       /\ UNCHANGED <<requests, sent>>

(* StatusCode::BAD_REQUEST arm *)
OnBadRequest(c, m) ==
    /\ result' = [result EXCEPT ![c] = ParameterValidationFailed]
    /\ pc' = [pc EXCEPT ![c] = "returned_err"]
    /\ UNCHANGED <<requests, sent, parsed, auth>>

(* _ => unreachable!() *)
OnOtherStatus(c, m) ==
    /\ pc' = [pc EXCEPT ![c] = "panicked"]
    /\ UNCHANGED <<requests, sent, parsed, result, auth>>

(* new() from the await on: the error conversion and the status match. *)
NewResume(c) ==
    /\ pc[c] = "awaiting"
    /\ \E m \in responses :
          /\ Deliverable(m, c)
          /\ responses' = responses \ {m}
          /\ CASE m.kind = "fail" -> OnTransportError(c, m)
               [] m.kind = "resp" /\ m.status = OK -> OnStatusOk(c, m)
               [] m.kind = "resp" /\ m.status = BAD_REQUEST -> OnBadRequest(c, m)
               [] OTHER -> OnOtherStatus(c, m)
    /\ UNCHANGED <<api_key, served, now, last_read, cl_log>>

(* #[derive(Default)] for IamAuthenticator: no request, a default TokenResponse. *)
DefaultConstruct(c) ==
    /\ pc[c] = "idle"
    /\ auth' = [auth EXCEPT ![c] = Some([access_token |-> TokenResponseDefault])]
    /\ pc' = [pc EXCEPT ![c] = "defaulted"]
    /\ UNCHANGED <<api_key, requests, responses, served, sent, parsed, result,
                   now, last_read, cl_log>>

(* ------------------------ reading an instance -------------------------- *)
token_response(a) == a.access_token

Observe(c, name, v) ==
    /\ Len(auth[c]) = 1
    /\ last_read' = [call |-> c, accessor |-> name, value |-> v]
    /\ UNCHANGED <<authVars, now, cl_log>>

(* A token_response() that replaces an expired token. *)
ReadTokenResponseRefreshing(c) ==
    /\ Len(auth[c]) = 1
    /\ IF now >= expiration(token_response(auth[c][1]))
       THEN auth' = [auth EXCEPT ![c] =
                Some([access_token |->
                    [token_response(auth[c][1]) EXCEPT !.access_token = "AT2",
                                                       !.expiration = @ + 2]])]
       ELSE UNCHANGED auth
    /\ last_read' = [call |-> c, accessor |-> "token_response",
                     value |-> token_response(auth'[c][1])]
    /\ UNCHANGED <<pc, api_key, requests, responses, served, sent, parsed, result,
                   now, cl_log>>

ReadTokenResponse(c) ==
    /\ Len(auth[c]) = 1
    /\ Observe(c, "token_response", token_response(auth[c][1]))

ReadAccessToken(c) ==
    /\ Len(auth[c]) = 1
    /\ Observe(c, "access_token", access_token(token_response(auth[c][1])))

ReadRefreshToken(c) ==
    /\ Len(auth[c]) = 1
    /\ Observe(c, "refresh_token", refresh_token(token_response(auth[c][1])))

ReadTokenType(c) ==
    /\ Len(auth[c]) = 1
    /\ Observe(c, "token_type", token_type(token_response(auth[c][1])))

ReadExpiresIn(c) ==
    /\ Len(auth[c]) = 1
    /\ Observe(c, "expires_in", expires_in(token_response(auth[c][1])))

ReadExpiration(c) ==
    /\ Len(auth[c]) = 1
    /\ Observe(c, "expiration", expiration(token_response(auth[c][1])))

ReadScope(c) ==
    /\ Len(auth[c]) = 1
    /\ Observe(c, "scope", scope(token_response(auth[c][1])))

ReadDelegatedRefreshToken(c) ==
    /\ Len(auth[c]) = 1
    /\ Observe(c, "delegated_refresh_token",
               delegated_refresh_token(token_response(auth[c][1])))

(* Wall-clock time passes; the code never reads it. *)
Tick ==
    /\ now < MaxTime
    /\ now' = now + 1
    /\ UNCHANGED <<authVars, last_read, cl_log>>

(* --------------------------- specifications --------------------------- *)
Next ==
    \/ \E c \in Calls, key \in ApiKeys : NewSend(c, key)
    \/ \E c \in Calls, st \in Statuses, b \in WireBodies : ServerRespond(c, st, b)
    \/ \E c \in Calls, d \in TransportErrors : TransportFail(c, d)
    \/ \E c \in Calls : NewResume(c)

Spec == Init /\ [][Next]_vars

NextLife ==
    \/ \E c \in LifeCalls, key \in ApiKeys : NewSend(c, key)
    \/ \E c \in LifeCalls, st \in Statuses, b \in LifeBodies : ServerRespond(c, st, b)
    \/ \E c \in LifeCalls, d \in TransportErrors : TransportFail(c, d)
    \/ \E c \in LifeCalls : NewResume(c)
    \/ \E c \in LifeCalls : DefaultConstruct(c)
    \/ \E c \in LifeCalls : ReadTokenResponse(c)
    \/ \E c \in LifeCalls : ReadAccessToken(c)
    \/ \E c \in LifeCalls : ReadRefreshToken(c)
    \/ \E c \in LifeCalls : ReadTokenType(c)
    \/ \E c \in LifeCalls : ReadExpiresIn(c)
    \/ \E c \in LifeCalls : ReadExpiration(c)
    \/ \E c \in LifeCalls : ReadScope(c)
    \/ \E c \in LifeCalls : ReadDelegatedRefreshToken(c)
    \/ Tick

SpecLife == Init /\ [][NextLife]_vars

(* ---------------------- voices error enumerations --------------------- *)
(* A customisation id or an error description is a sequence of characters; *)
(* a #[error("...")] format string is a sequence of pieces, "{0}" being    *)
(* the placeholder of the variant's field.                                 *)
CustomIds == { <<"c","u","s","t","o","m","-","i","d","-","1","2","3">>,
               <<"i","d">>, <<>> }
ClassifyErrors == { <<"t","i","m","e","d"," ","o","u","t">> }
ListStatuses == {404, 406, 415, 500, 503}
GetStatuses == {304, 400, 401, 404, 406, 415, 500, 503}

RECURSIVE Format(_, _)
(* thiserror's Display: the format string with {0} replaced by the field. *)
Format(pieces, arg) ==
    IF pieces = <<>> THEN <<>>
    ELSE (IF Head(pieces) = "{0}" THEN arg ELSE <<Head(pieces)>>)
         \o Format(Tail(pieces), arg)

Variant(name, status, carries, text) ==
    [name |-> name, status |-> status, carries |-> carries, text |-> text]

ListVoicesErrorDuplicated ==
    { Variant("NotAcceptable406", Some(406), FALSE,
        <<"The request specified an Accept header with an incompatible content type.">>),
      Variant("UnsupportedMediaType415", Some(415), FALSE,
        <<"The request specified an unacceptable media type.">>),
      Variant("InternalServerError500", Some(500), FALSE,
        <<"The service experienced an internal error.">>),
      Variant("ServiceUnavailable503", Some(500), FALSE,
        <<"The service is currently unavailable.">>),
      Variant("ConnectionError", None, TRUE, <<"{0}">>) }

(* enum ListVoicesError: each variant with the status its name and comment give. *)
ListVoicesError ==
    { Variant("NotAcceptable406", Some(406), FALSE,
        <<"The request specified an Accept header with an incompatible content type.">>),
      Variant("UnsupportedMediaType415", Some(415), FALSE,
        <<"The request specified an unacceptable media type.">>),
      Variant("InternalServerError500", Some(500), FALSE,
        <<"The service experienced an internal error.">>),
      Variant("ServiceUnavailable503", Some(503), FALSE,
        <<"The service is currently unavailable.">>),
      Variant("ConnectionError", None, TRUE, <<"{0}">>) }

GetVoiceErrorCommon ==
    { Variant("NotModified304", Some(304), FALSE,
        <<"The requested resource has not been modified since the time specified by the If-Modified-Since header, as documented in the HTTP specification">>),
      Variant("BadRequest400", Some(400), FALSE,
        <<"A required input parameter is null or a specified input parameter or header value is invalid or not supported. Please check your customisation id">>),
      Variant("NotAcceptable406", Some(406), FALSE,
        <<"The request specified an Accept header with an incompatible content type.">>),
      Variant("UnsupportedMediaType415", Some(415), FALSE,
        <<"The request specified an unacceptable media type.">>),
      Variant("InternalServerError500", Some(500), FALSE,
        <<"The service experienced an internal error.">>),
      Variant("ServiceUnavailable503", Some(503), FALSE,
        <<"The service is currently unavailable.">>),
      Variant("ConnectionError", None, TRUE, <<"{0}">>) }

GetVoiceErrorNoId ==
    GetVoiceErrorCommon \cup
    { Variant("Unauthorised401", Some(401), TRUE,
        <<"The specified customisation_id is invalid for the requesting credentials">>) }

(* enum GetVoiceError *)
GetVoiceError ==
    GetVoiceErrorCommon \cup
    { Variant("Unauthorised401", Some(401), TRUE,
        <<"The specified customisation_id ", "{0}",
          " is invalid for the requesting credentials">>) }

Classified(op, status, input, v, payload) ==
    [op |-> op, status |-> status, input |-> input, variant |-> v.name,
     payload |-> payload, message |-> Format(v.text, payload)]

(* The list-voices classifier on a status: the variant of that status. *)
ClassifyListVoices(status) ==
    /\ Len(cl_log) < MaxClassify
    /\ \E v \in ListVoicesError :
          /\ v.status = Some(status)
          /\ cl_log' = Append(cl_log, Classified("list_voices", Some(status), <<>>, v, <<>>))
    /\ UNCHANGED <<authVars, now, last_read>>

(* The list-voices classifier on a transport failure. *)
ListVoicesTransportError(d) ==
    /\ Len(cl_log) < MaxClassify
    /\ \E v \in ListVoicesError :
          /\ v.status = None
          /\ cl_log' = Append(cl_log, Classified("list_voices", None, d, v, d))
    /\ UNCHANGED <<authVars, now, last_read>>

(* The get-voice classifier on a status and the request's customisation id. *)
ClassifyGetVoice(status, cid) ==
    /\ Len(cl_log) < MaxClassify
    /\ \E v \in GetVoiceError :
          /\ v.status = Some(status)
          /\ cl_log' = Append(cl_log,
                Classified("get_voice", Some(status), cid, v,
                           IF v.carries THEN cid ELSE <<>>))
    /\ UNCHANGED <<authVars, now, last_read>>

(* The get-voice classifier on a transport failure. *)
GetVoiceTransportError(d) ==
    /\ Len(cl_log) < MaxClassify
    /\ \E v \in GetVoiceError :
          /\ v.status = None
          /\ cl_log' = Append(cl_log, Classified("get_voice", None, d, v, d))
    /\ UNCHANGED <<authVars, now, last_read>>

NextClassify ==
    \/ \E st \in ListStatuses : ClassifyListVoices(st)
    \/ \E d \in ClassifyErrors : ListVoicesTransportError(d)
    \/ \E st \in GetStatuses, cid \in CustomIds : ClassifyGetVoice(st, cid)
    \/ \E d \in ClassifyErrors : GetVoiceTransportError(d)

SpecClassify == Init /\ [][NextClassify]_vars

(* ------------------------------ properties ---------------------------- *)
Ended(c) == pc[c] \in {"returned_ok", "returned_err", "panicked"}
Answered(c, status) == served[c].kind = "resp" /\ served[c].status = status
Token(c) == auth[c][1].access_token
OptionOf(v) == IF v.t = "str" THEN <<v.s>> ELSE <<>>

(* A JSON object with every required key holding a value of the field's   *)
(* type and every optional key missing, null or a string.                  *)
WellFormedTokenBody(b) ==
    /\ b.json
    /\ b.access_token.t = "str" /\ b.refresh_token.t = "str" /\ b.token_type.t = "str"
    /\ b.expires_in.t = "num" /\ b.expiration.t = "num"
    /\ b.delegated_refresh_token.t \in {"absent", "null", "str"}
    /\ b.scope.t \in {"absent", "null", "str"}

(* C1: a call answered 200 with a well-formed token body returns Ok and    *)
(* its TokenRecord carries each field of the body verbatim, absent         *)
(* optional fields being none.                                             *)
Theorem_C1 ==
    \A c \in Calls :
        (Ended(c) /\ Answered(c, OK) /\ WellFormedTokenBody(served[c].body)) =>
            /\ pc[c] = "returned_ok"
            /\ result[c].tag = "Ok"
            /\ Len(auth[c]) = 1
            /\ Token(c).access_token = served[c].body.access_token.s
            /\ Token(c).refresh_token = served[c].body.refresh_token.s
            /\ Token(c).delegated_refresh_token = OptionOf(served[c].body.delegated_refresh_token)
            /\ Token(c).token_type = served[c].body.token_type.s
            /\ Token(c).expires_in = served[c].body.expires_in.n
            /\ Token(c).expiration = served[c].body.expiration.n
            /\ Token(c).scope = OptionOf(served[c].body.scope)

Witness_C1 ==
    \E c \in Calls :
        /\ pc[c] = "returned_ok" /\ Answered(c, OK)
        /\ served[c].body.delegated_refresh_token.t = "null"
        /\ served[c].body.scope.t = "str"
        /\ served[c].body.accessToken.t = "str"
        /\ Token(c).access_token = "AT" /\ Token(c).refresh_token = "RT"

(* C2: a call answered 400 returns exactly Err(ParameterValidationFailed): *)
(* no instance is created, the body is not parsed, one request was sent    *)
(* and none is in flight.                                                  *)
Theorem_C2 ==
    \A c \in Calls :
        (Ended(c) /\ Answered(c, BAD_REQUEST)) =>
            /\ pc[c] = "returned_err"
            /\ result[c] = ParameterValidationFailed
            /\ auth[c] = None
            /\ parsed[c] = 0
            /\ sent[c] = 1
            /\ \A r \in requests : r.call # c

Witness_C2 ==
    \E c \in Calls :
        /\ pc[c] = "returned_err" /\ Answered(c, BAD_REQUEST)
        /\ WellFormedTokenBody(served[c].body)

(* C3: a call whose transport failed returns Err(ConnectionError(d)) with  *)
(* d the non-empty description of the failure; no arm of the status match  *)
(* ran and no instance is created.                                         *)
Theorem_C3 ==
    \A c \in Calls :
        (Ended(c) /\ served[c].kind = "fail") =>
            /\ pc[c] = "returned_err"
            /\ result[c].tag = "Err"
            /\ result[c].err = "ConnectionError"
            /\ result[c].desc = served[c].desc
            /\ result[c].desc # ""
            /\ parsed[c] = 0
            /\ auth[c] = None

Witness_C3 ==
    \E c \in Calls :
        /\ pc[c] = "returned_err" /\ served[c].kind = "fail"
        /\ result[c].desc = "operation timed out"

(* C4: no call of new ever reaches a panic: every call that ends returns   *)
(* Ok or a typed Err.                                                      *)
Claim_C4 ==
    \A c \in Calls : pc[c] # "panicked"

(* C5 as stated: every TokenRecord that exists, however its instance was   *)
(* constructed, has a non-empty access_token and refresh_token.            *)
Claim_C5 ==
    \A c \in Calls :
        Len(auth[c]) = 1 =>
            Token(c).access_token # "" /\ Token(c).refresh_token # ""

(* C5 amended: a TokenRecord built by new from a 200 body whose            *)
(* access_token and refresh_token are non-empty strings has a non-empty    *)
(* access_token and refresh_token.                                         *)
Theorem_C5 ==
    \A c \in Calls :
        ( /\ Len(auth[c]) = 1
          /\ pc[c] = "returned_ok"
          /\ served[c].body.access_token.t = "str" /\ served[c].body.access_token.s # ""
          /\ served[c].body.refresh_token.t = "str" /\ served[c].body.refresh_token.s # "" )
        => Token(c).access_token # "" /\ Token(c).refresh_token # ""

Witness_C5 ==
    \E c \in Calls :
        /\ Len(auth[c]) = 1 /\ pc[c] = "returned_ok"
        /\ served[c].body.access_token.s # "" /\ served[c].body.refresh_token.s # ""
        /\ served[c].body.accessToken.t = "absent"
        /\ Token(c).access_token # ""

(* C8: a call of new sends exactly one request: never more than one, and   *)
(* once the call has ended (failure, 400 or 200) one was sent and nothing  *)
(* of the call is in flight.                                               *)
Theorem_C8 ==
    \A c \in Calls :
        /\ sent[c] <= 1
        /\ Cardinality({r \in requests : r.call = c}) <= 1
        /\ pc[c] \in {"returned_ok", "returned_err"} =>
              /\ sent[c] = 1
              /\ \A r \in requests : r.call # c
              /\ \A m \in responses : m.call # c

Witness_C8 ==
    \E c, d \in Calls :
        /\ pc[c] = "returned_err" /\ served[c].kind = "fail"
        /\ pc[d] = "returned_err" /\ Answered(d, BAD_REQUEST)
        /\ sent[c] = 1 /\ sent[d] = 1

FieldOf(tok, name) ==
    CASE name = "token_response" -> tok
      [] name = "access_token" -> tok.access_token
      [] name = "refresh_token" -> tok.refresh_token
      [] name = "token_type" -> tok.token_type
      [] name = "expires_in" -> tok.expires_in
      [] name = "expiration" -> tok.expiration
      [] name = "scope" -> tok.scope
      [] name = "delegated_refresh_token" -> tok.delegated_refresh_token

(* C9: once new has returned an instance, no step changes its TokenRecord, *)
(* and every read of it, at any time, returns the record's values.         *)
Theorem_C9 ==
    [][ \A c \in Calls :
          pc[c] = "returned_ok" =>
             /\ auth'[c] = auth[c]
             /\ pc'[c] = pc[c]
             /\ (last_read'.call = c =>
                    last_read'.value = FieldOf(Token(c), last_read'.accessor)) ]_vars

Witness_C9 ==
    \E c \in Calls :
        /\ pc[c] = "returned_ok"
        /\ now > Token(c).expiration
        /\ last_read.call = c
        /\ last_read.accessor = "token_response"

(* The outcome a response alone determines. *)
OwnOutcome(m) ==
    CASE m.kind = "fail" ->
            [pc |-> "returned_err", result |-> ConnectionError(m.desc), auth |-> None]
      [] m.kind = "resp" /\ m.status = BAD_REQUEST ->
            [pc |-> "returned_err", result |-> ParameterValidationFailed, auth |-> None]
      [] m.kind = "resp" /\ m.status = OK /\ WellFormedTokenBody(m.body) ->
            [pc |-> "returned_ok", result |-> ResultOk,
             auth |-> << [access_token |->
                 [access_token |-> m.body.access_token.s,
                  refresh_token |-> m.body.refresh_token.s,
                  delegated_refresh_token |-> OptionOf(m.body.delegated_refresh_token),
                  token_type |-> m.body.token_type.s,
                  expires_in |-> m.body.expires_in.n,
                  expiration |-> m.body.expiration.n,
                  scope |-> OptionOf(m.body.scope)]] >>]
      [] OTHER -> [pc |-> "panicked", result |-> Pending, auth |-> None]

(* C10: with calls interleaved in any way, the outcome of each ended call  *)
(* is the one its own response determines, whatever the other calls'       *)
(* keys, responses and order.                                              *)
Theorem_C10 ==
    \A c \in Calls :
        Ended(c) =>
            /\ pc[c] = OwnOutcome(served[c]).pc
            /\ result[c] = OwnOutcome(served[c]).result
            /\ auth[c] = OwnOutcome(served[c]).auth

Witness_C10 ==
    \E c, d \in Calls :
        /\ pc[c] = "returned_ok" /\ pc[d] = "returned_err"
        /\ api_key[c] # api_key[d]
        /\ Token(c).scope = None
        /\ result[d] = ParameterValidationFailed

ListEntries == {i \in DOMAIN cl_log : cl_log[i].op = "list_voices"}
GetEntries == {i \in DOMAIN cl_log : cl_log[i].op = "get_voice"}

Contains(msg, s) ==
    \E i \in 1..(Len(msg) + 1) :
        i + Len(s) - 1 <= Len(msg) /\ SubSeq(msg, i, i + Len(s) - 1) = s

(* C6: list voices maps 406, 415, 500, 503 and a transport failure to      *)
(* their variants, and distinct statuses never share a variant.            *)
Theorem_C6 ==
    /\ \A i \in ListEntries :
          /\ cl_log[i].status = <<406>> => cl_log[i].variant = "NotAcceptable406"
          /\ cl_log[i].status = <<415>> => cl_log[i].variant = "UnsupportedMediaType415"
          /\ cl_log[i].status = <<500>> => cl_log[i].variant = "InternalServerError500"
          /\ cl_log[i].status = <<503>> => cl_log[i].variant = "ServiceUnavailable503"
          /\ cl_log[i].status = <<>> => cl_log[i].variant = "ConnectionError"
    /\ \A i, j \in ListEntries :
          (cl_log[i].status # cl_log[j].status) = (cl_log[i].variant # cl_log[j].variant)

Witness_C6 ==
    \E i, j \in ListEntries :
        /\ cl_log[i].status = <<500>> /\ cl_log[j].status = <<503>>
        /\ cl_log[i].variant # cl_log[j].variant

(* C7: get voice maps 304 to NotModified304 and 401 with id s to           *)
(* Unauthorised401(s), whose message contains s; 400, 406, 415, 500, 503   *)
(* map to their own variants, which carry nothing.                         *)
Theorem_C7 ==
    \A i \in GetEntries :
        /\ cl_log[i].status = <<304>> =>
              cl_log[i].variant = "NotModified304" /\ cl_log[i].payload = <<>>
        /\ cl_log[i].status = <<401>> =>
              /\ cl_log[i].variant = "Unauthorised401"
              /\ cl_log[i].payload = cl_log[i].input
              /\ Contains(cl_log[i].message, cl_log[i].input)
        /\ cl_log[i].status = <<400>> =>
              cl_log[i].variant = "BadRequest400" /\ cl_log[i].payload = <<>>
        /\ cl_log[i].status = <<406>> =>
              cl_log[i].variant = "NotAcceptable406" /\ cl_log[i].payload = <<>>
        /\ cl_log[i].status = <<415>> =>
              cl_log[i].variant = "UnsupportedMediaType415" /\ cl_log[i].payload = <<>>
        /\ cl_log[i].status = <<500>> =>
              cl_log[i].variant = "InternalServerError500" /\ cl_log[i].payload = <<>>
        /\ cl_log[i].status = <<503>> =>
              cl_log[i].variant = "ServiceUnavailable503" /\ cl_log[i].payload = <<>>

Witness_C7 ==
    \E i, j \in GetEntries :
        /\ cl_log[i].status = <<401>>
        /\ cl_log[i].input = <<"c","u","s","t","o","m","-","i","d","-","1","2","3">>
        /\ Len(cl_log[i].message) = 15
        /\ cl_log[j].status = <<304>>
====
